---- MODULE Spec2Model ----
(***************************************************************************)
(* A model of kanjicolorizer/colorizer.py: the KanjiColorizer settings,    *)
(* the colour generator, and the minidom document the private svg methods  *)
(* mutate in place.                                                        *)
(*                                                                         *)
(* Numbers.  saturation and value are floats in the source; here they are  *)
(* kept in hundredths (95 stands for 0.95).  A hue is a fraction           *)
(* <<num, den>>.  Channel values are computed exactly on these fractions   *)
(* and then truncated, as int(i * 255) does.                               *)
(***************************************************************************)
EXTENDS Integers, Sequences, FiniteSets, TLC

VARIABLES settings, gen, yielded, dom, log, ret, files

vars == <<settings, gen, yielded, dom, log, ret, files>>

(***************************************************************************)
(* Bounds of the model.                                                    *)
(***************************************************************************)
\* largest n passed to _color_generator when it is driven directly
MaxN == 7
\* nodes of a stroke diagram inside its svg element, the labels aside
MaxNodes == 4
\* stroke-number labels at the end of a stroke diagram
MaxLabels == 2
\* nodes inside the root element of the other documents
MaxTreeNodes == 2
\* calls of _comment_copyright on one document
MaxCalls == 2

\* hues are tried in steps of 1 / HueSteps
HueSteps == 12
MaxChars == 4
MaxRuns == 2

(***************************************************************************)
(* Settings: argparse defaults and the argument strings tried.             *)
(***************************************************************************)
\* A Python string is the sequence of its characters, each a string of
\* length one; None is a sequence no string equals.
None == << "None" >>

\* settings.characters: None by default, a str from --characters, and a list
\* of str once write_all has split it
NoCharacters == [type |-> "NoneType", value |-> << >>]
StrOf(s) == [type |-> "str", value |-> s]
ListOf(l) == [type |-> "list", value |-> l]

\* _init_parser: the defaults of every option
DefaultSettings ==
  [ mode             |-> "spectrum",
    saturation       |-> 95,
    group_mode       |-> FALSE,
    value            |-> 75,
    image_size       |-> 327,
    characters       |-> NoCharacters,
    filename_mode    |-> "character",
    output_directory |-> "colorized-kanji" ]

\* one option of an argument string: store_true options carry val = TRUE
Opt(o, v) == [opt |-> o, val |-> v]

\* the argument strings handed to KanjiColorizer(...) / read_arg_string
ArgStrings ==
  { << >>,
    << Opt("mode", "contrast"), Opt("saturation", 100), Opt("value", 100),
       Opt("image_size", 100) >>,
    << Opt("group_mode", TRUE), Opt("image_size", 109) >> }

RECURSIVE ApplyOpts(_, _)
ApplyOpts(ns, args) ==
  IF args = << >> THEN ns
  ELSE ApplyOpts([ns EXCEPT ![Head(args).opt] = Head(args).val], Tail(args))

\* parse_args: every option starts at its default, later options override
parse_args(argstring) == ApplyOpts(DefaultSettings, argstring)

(***************************************************************************)
(* Colours.                                                                *)
(***************************************************************************)
HexDigits ==
  << "0", "1", "2", "3", "4", "5", "6", "7", "8", "9",
     "a", "b", "c", "d", "e", "f" >>

\* '%02x' of a channel 0..255
Hex02(c) == HexDigits[(c \div 16) + 1] \o HexDigits[(c % 16) + 1]

\* a faulty variant: round(x * 255)
ChannelRounded(v, X, den) ==
  (2 * ((255 * v) * (X \div 10000) + (((255 * v) * (X % 10000)) \div 10000)) + den)
    \div (2 * den)

\* int(x * 255) for x = (v/100) * (X / (100 * den)), X <= 100 * den,
\* split so that no product leaves 32 bits
Channel(v, X, den) ==
  LET A  == 255 * v
      hi == X \div 10000
      lo == X % 10000
  IN  (A * hi + ((A * lo) \div 10000)) \div den

\* colorsys.hsv_to_rgb(h, s, v) followed by int(i * 255) on each channel;
\* h = hue[1] / hue[2], s and v in hundredths
HsvToRgb255(hue, s, v) ==
  IF s = 0 THEN << (255 * v) \div 100, (255 * v) \div 100, (255 * v) \div 100 >>
  ELSE
    LET den == hue[2]
        h6  == 6 * hue[1]
        i   == h6 \div den
        fN  == h6 % den
        V   == Channel(v, 100 * den, den)
        P   == Channel(v, (100 - s) * den, den)
        Q   == Channel(v, 100 * den - s * fN, den)
        T   == Channel(v, 100 * den - s * (den - fN), den)
        k   == i % 6
    IN  CASE k = 0 -> << V, T, P >>
          [] k = 1 -> << Q, V, P >>
          [] k = 2 -> << P, V, T >>
          [] k = 3 -> << P, Q, V >>
          [] k = 4 -> << T, P, V >>
          [] k = 5 -> << V, P, Q >>

\* _hsv_to_rgbhexcode
_hsv_to_rgbhexcode(hue, s, v) ==
  LET c == HsvToRgb255(hue, s, v)
  IN  "#" \o Hex02(c[1]) \o Hex02(c[2]) \o Hex02(c[3])

\* the conjugate of the golden ratio, in millionths
AngleMicro == 618034
Micro == 1000000

\* a faulty variant: the spectrum hue in contrast mode
ContrastHueOfN(i, n) == << i, n >>

\* the hue of the i-th colour of n in contrast mode: i * angle
ContrastHue(i, n) == << i * AngleMicro, Micro >>

\* the hue of the i-th colour of n in spectrum mode: float(i) / n
SpectrumHue(i, n) == << i, n >>

\* the expression yielded by the body of _color_generator's loop; the
\* division float(i) / n raises ZeroDivisionError when n = 0
ColorAt(st, i, n) ==
  IF st.mode = "contrast"
  THEN _hsv_to_rgbhexcode(ContrastHue(i, n), st.saturation, st.value)
  ELSE IF n = 0 THEN "ZeroDivisionError"
       ELSE _hsv_to_rgbhexcode(SpectrumHue(i, n), st.saturation, st.value)

\* a faulty variant: range(n + 1)
InRangeInclusive(i, n) == i <= n

\* range(n): whether the loop of _color_generator has an i-th iteration
InRange(i, n) == i < n

\* list(_color_generator(n)): the generator run to exhaustion
RECURSIVE ColorsFrom(_, _, _)
ColorsFrom(st, i, n) ==
  IF InRange(i, n) THEN << ColorAt(st, i, n) >> \o ColorsFrom(st, i + 1, n)
  ELSE << >>

_color_generator(st, n) == ColorsFrom(st, 0, n)

(***************************************************************************)
(* Source texts.  A source text is the sequence of its nodes in document   *)
(* order, each with its nesting depth (0: a child of the document).  The   *)
(* empty sequence is the empty string.                                     *)
(***************************************************************************)
Tok(type, name, attrs, dp, data) ==
  [nodeType |-> type, nodeName |-> name, attributes |-> attrs,
   depth |-> dp, data |-> data]

NoAttrs == << >>

\* the attributes of the root element of a KanjiVG file
SizeAttrs == [width |-> "109", height |-> "109", viewBox |-> "0 0 109 109"]

\* the grouping attribute _color_svg_groups looks for
GroupAttr == "kvg:element"

\* the node kinds source texts are written with
TokOf(kind, dp) ==
  CASE kind = "svg"      -> Tok("ELEMENT", "svg", SizeAttrs, dp, "")
    [] kind = "svg_bare" -> Tok("ELEMENT", "svg", NoAttrs, dp, "")
    [] kind = "ge"       -> Tok("ELEMENT", "g", GroupAttr :> "e", dp, "")
    [] kind = "g"        -> Tok("ELEMENT", "g", NoAttrs, dp, "")
    [] kind = "path"     -> Tok("ELEMENT", "path", NoAttrs, dp, "")
    [] kind = "text"     -> Tok("ELEMENT", "text", NoAttrs, dp, "")
    [] kind = "ws"       -> Tok("TEXT", "#text", NoAttrs, dp, " ")
    [] kind = "chars"    -> Tok("TEXT", "#text", NoAttrs, dp, "1")
    [] kind = "comment"  -> Tok("COMMENT", "#comment", NoAttrs, dp, "inner")

\* depths at which a further node can be written inside the root element:
\* directly in the root, or in a group that is still open
OpenDepths(s) ==
  {1} \cup { s[i].depth + 1 : i \in { j \in 1 .. Len(s) :
                 /\ s[j].nodeName = "g"
                 /\ \A m \in (j + 1) .. Len(s) : s[m].depth > s[j].depth } }

\* two text nodes in a row at one depth would be one text node
NoTextRun(s, t) ==
  \/ s = << >>
  \/ ~ (s[Len(s)].nodeType = "TEXT" /\ t.nodeType = "TEXT"
        /\ s[Len(s)].depth = t.depth)

\* the contents of a root element: at most n nodes of the kinds given
RECURSIVE InnerSeqs(_, _)
InnerSeqs(n, kinds) ==
  IF n = 0 THEN { << >> }
  ELSE LET P == InnerSeqs(n - 1, kinds)
       IN  P \cup UNION { { Append(s, t) :
                              t \in { x \in { TokOf(k, dp) : k \in kinds,
                                                             dp \in OpenDepths(s) } :
                                      NoTextRun(s, x) } } :
                          s \in { x \in P : Len(x) = n - 1 } }

\* l stroke-number labels, written last in the root element
Labels(l) == [i \in 1 .. l |-> TokOf("text", 1)]

(***************************************************************************)
(* minidom.  A document is a table of nodes (a node's id is its index) and *)
(* the ids of the document's own children; parentNode 0 is the document.   *)
(***************************************************************************)
Element(name, attrs) ==
  [nodeType |-> "ELEMENT", nodeName |-> name, attributes |-> attrs,
   childNodes |-> << >>, data |-> "", parentNode |-> -1]

\* the node the parser creates for one token
NodeOf(tok) ==
  [nodeType |-> tok.nodeType, nodeName |-> tok.nodeName,
   attributes |-> tok.attributes, childNodes |-> << >>,
   data |-> tok.data, parentNode |-> -1]

\* k tabs
RECURSIVE Tabs(_)
Tabs(k) == IF k = 0 THEN "" ELSE "\t" \o Tabs(k - 1)

\* str.isspace on the character data that occurs: a blank in a source text,
\* a line break and its indentation in a pretty-printed one
isspace(data) ==
  \/ data = " "
  \/ \E k \in 0 .. Len(data) : data = "\n" \o Tabs(k)

EmptyDocument == [nodes |-> << >>, childNodes |-> << >>]

\* no document: what a failed parse leaves, and what a caller holds at first
NoDom == [none |-> TRUE]

\* node.childNodes, the document being node 0
ChildNodes(d, id) == IF id = 0 THEN d.childNodes ELSE d.nodes[id].childNodes

SetChildNodes(d, id, cs) ==
  IF id = 0 THEN [d EXCEPT !.childNodes = cs]
  ELSE [d EXCEPT !.nodes[id].childNodes = cs]

\* createElement and friends: a node that has no parent yet
CreateNode(d, node) == [d EXCEPT !.nodes = Append(@, node)]

\* Node.removeChild
removeChild(d, parent, id) ==
  LET cs == ChildNodes(d, parent)
      d1 == SetChildNodes(d, parent, SelectSeq(cs, LAMBDA c : c # id))
  IN  [d1 EXCEPT !.nodes[id].parentNode = -1]

\* Node.appendChild: a node that has a parent is taken out of it first
appendChild(d, parent, id) ==
  LET d1 == IF d.nodes[id].parentNode >= 0
            THEN removeChild(d, d.nodes[id].parentNode, id) ELSE d
      d2 == SetChildNodes(d1, parent, Append(ChildNodes(d1, parent), id))
  IN  [d2 EXCEPT !.nodes[id].parentNode = parent]

\* expat and the DOM builder, token by token: open[k] is the element that is
\* open at depth k - 1, nroot the number of document elements seen.
\* White space between the children of the document is dropped, any other
\* text there is an error, as are no or two document elements; character
\* data that follows character data in one parent is added to that node.
RECURSIVE ParseFrom(_, _, _, _, _)
ParseFrom(src, k, d, open, nroot) ==
  IF k > Len(src)
  THEN IF nroot = 0 THEN [raised |-> "ExpatError", dom |-> NoDom]
       ELSE [raised |-> "", dom |-> d]
  ELSE
    LET tok  == src[k]
        dp   == tok.depth
        isEl == tok.nodeType = "ELEMENT"
        id   == Len(d.nodes) + 1
    IN  IF dp = 0 /\ tok.nodeType = "TEXT" /\ isspace(tok.data)
        THEN ParseFrom(src, k + 1, d, << >>, nroot)
        ELSE IF \/ dp = 0 /\ tok.nodeType = "TEXT"
                \/ dp = 0 /\ isEl /\ nroot > 0
                \/ dp > Len(open)
        THEN [raised |-> "ExpatError", dom |-> NoDom]
        ELSE
          LET parent == IF dp = 0 THEN 0 ELSE open[dp]
              sibs   == ChildNodes(d, parent)
              prev   == IF sibs = << >> THEN 0 ELSE sibs[Len(sibs)]
              merge  == /\ tok.nodeType = "TEXT" /\ prev # 0
                        /\ d.nodes[prev].nodeType = "TEXT"
              d1     == IF merge
                        THEN [d EXCEPT !.nodes[prev].data = @ \o tok.data]
                        ELSE appendChild(CreateNode(d, NodeOf(tok)), parent, id)
              open1  == SubSeq(open, 1, dp) \o (IF isEl THEN << id >> ELSE << >>)
          IN  ParseFrom(src, k + 1, d1, open1, IF dp = 0 /\ isEl THEN nroot + 1 ELSE nroot)

\* minidom.parseString
parseString(src) == ParseFrom(src, 1, EmptyDocument, << >>, 0)

\* Node.getElementsByTagName: the descendants of node id, in document order
RECURSIVE ElementsIn(_, _, _)
ElementsIn(d, ids, name) ==
  IF ids = << >> THEN << >>
  ELSE LET id == Head(ids)
           n  == d.nodes[id]
       IN  (IF n.nodeType = "ELEMENT" /\ n.nodeName = name THEN << id >> ELSE << >>)
           \o ElementsIn(d, n.childNodes, name)
           \o ElementsIn(d, Tail(ids), name)

getElementsByTagName(d, id, name) == ElementsIn(d, ChildNodes(d, id), name)

\* element.attributes[name] = value
SetAttribute(d, id, name, value) ==
  LET old == d.nodes[id].attributes
  IN  [d EXCEPT !.nodes[id].attributes =
         [a \in (DOMAIN old) \cup {name} |-> IF a = name THEN value ELSE old[a]]]

hasAttribute(d, id, name) == name \in DOMAIN d.nodes[id].attributes

(***************************************************************************)
(* The private methods that modify a document.  Each gives the document it *)
(* leaves and the exception it raised ("" when it returned).               *)
(***************************************************************************)
Max(a, b) == IF a >= b THEN a ELSE b
Min(a, b) == IF a <= b THEN a ELSE b

\* str(n) of a non-negative integer
RECURSIVE str(_)
str(n) == IF n < 10 THEN HexDigits[n + 1] ELSE str(n \div 10) \o HexDigits[(n % 10) + 1]

\* str(x) of a float given in hundredths: 95 is '0.95', 100 is '1.0'
FloatStr(h) ==
  str(h \div 100) \o "." \o
    (IF h % 10 = 0 THEN str((h % 100) \div 10)
     ELSE str((h % 100) \div 10) \o str(h % 10))

\* a faulty variant: only the paths directly in the svg element are counted
StrokeCountDirect(d, svg) ==
  Len(SelectSeq(ChildNodes(d, svg), LAMBDA c : d.nodes[c].nodeName = "path"))

\* _stroke_count
\* a faulty variant: the stroke numbers are counted
StrokeCountTexts(d, svg) == Len(getElementsByTagName(d, svg, "text"))

_stroke_count(d, svg) == Len(getElementsByTagName(d, svg, "path"))

\* _get_direct_paths
_get_direct_paths(d, id) ==
  SelectSeq(ChildNodes(d, id), LAMBDA c : d.nodes[c].nodeName = "path")

\* a faulty variant: a path anywhere below the node counts
HasPathBelow(d, id) == getElementsByTagName(d, id, "path") # << >>

\* _has_direct_path
_has_direct_path(d, id) == Len(_get_direct_paths(d, id)) # 0

\* _get_nonempty_elements
_get_nonempty_elements(d, svg, attribute) ==
  SelectSeq(getElementsByTagName(d, svg, "g"),
            LAMBDA g : hasAttribute(d, g, attribute) /\ _has_direct_path(d, g))

\* 'stroke: %s;' % color and 'fill: %s;' % color
StrokeStyle(color) == "stroke: " \o color \o ";"
FillStyle(color) == "fill: " \o color \o ";"

\* the k-th item zip_longest takes from a list, None past its end: the
\* string 'None' for a colour, 0 for a node
ColorOrNone(seq, k) == IF k <= Len(seq) THEN seq[k] ELSE "None"
NodeOrNone(seq, k) == IF k <= Len(seq) THEN seq[k] ELSE 0

\* the loop of _color_svg_strokes from its k-th round on
RECURSIVE StrokesLoop(_, _, _, _, _)
StrokesLoop(d, colors, paths, texts, k) ==
  IF k > Max(Len(colors), Max(Len(paths), Len(texts)))
  THEN [raised |-> "", dom |-> d]
  ELSE LET color == ColorOrNone(colors, k)
           path  == NodeOrNone(paths, k)
           text  == NodeOrNone(texts, k)
       IN  IF path = 0 THEN [raised |-> "AttributeError", dom |-> d]
           ELSE LET d1 == SetAttribute(d, path, "style", StrokeStyle(color))
                    d2 == IF text # 0
                          THEN SetAttribute(d1, text, "style", FillStyle(color))
                          ELSE d1
                IN  StrokesLoop(d2, colors, paths, texts, k + 1)

\* _color_svg_strokes
_color_svg_strokes(d, svg, st) ==
  StrokesLoop(d, _color_generator(st, _stroke_count(d, svg)),
              getElementsByTagName(d, svg, "path"),
              getElementsByTagName(d, svg, "text"), 1)

\* the inner loop of _color_svg_groups: zip_longest(paths, texts)
RECURSIVE GroupPairs(_, _, _, _, _)
GroupPairs(d, color, paths, texts, k) ==
  IF k > Max(Len(paths), Len(texts)) THEN [raised |-> "", dom |-> d]
  ELSE LET path == NodeOrNone(paths, k)
           text == NodeOrNone(texts, k)
       IN  IF path = 0 THEN [raised |-> "AttributeError", dom |-> d]
           ELSE LET d1 == SetAttribute(d, path, "style", StrokeStyle(color))
                    d2 == IF text # 0
                          THEN SetAttribute(d1, text, "style", FillStyle(color))
                          ELSE d1
                IN  GroupPairs(d2, color, paths, texts, k + 1)

\* a faulty variant: the texts a group has used stay in the list
DropNone(seq, n) == seq

\* all_texts[:n] and all_texts[n:]
Take(seq, n) == SubSeq(seq, 1, Min(n, Len(seq)))
Drop(seq, n) == SubSeq(seq, Min(n, Len(seq)) + 1, Len(seq))

\* the outer loop of _color_svg_groups from its j-th group on
RECURSIVE GroupsLoop(_, _, _, _, _)
GroupsLoop(d, groups, colors, all_texts, j) ==
  IF j > Len(groups) THEN [raised |-> "", dom |-> d]
  ELSE IF j > Len(colors) THEN [raised |-> "StopIteration", dom |-> d]
  ELSE LET paths == _get_direct_paths(d, groups[j])
           texts == Take(all_texts, Len(paths))
           r     == GroupPairs(d, colors[j], paths, texts, 1)
       IN  IF r.raised # "" THEN r
           ELSE GroupsLoop(r.dom, groups, colors, Drop(all_texts, Len(paths)), j + 1)

\* _color_svg_groups
_color_svg_groups(d, svg, st) ==
  LET groups == _get_nonempty_elements(d, svg, GroupAttr)
  IN  GroupsLoop(d, groups, _color_generator(st, Len(groups)),
                 getElementsByTagName(d, svg, "text"), 1)

\* the text of the note before and after the settings it names
NoteHead ==
  "This file has been modified from the original version by the kanji_colorize.py\n"
  \o "script (available at http://github.com/Darkclainer/kanji-colorize,\n"
  \o "that is fork of https://github.com/cayennes/kanji-colorize) with these\n"
  \o "settings:\n"

NoteTail ==
  "It remains under a Creative Commons-Attribution-Share Alike 3.0 License.\n"
  \o "\n"
  \o "The original SVG has the following copyright:\n"
  \o "\n"

\* the note _comment_copyright writes, with the settings it names
Note(st) ==
  NoteHead
  \o "    mode: " \o st.mode \o "\n"
  \o "    saturation: " \o FloatStr(st.saturation) \o "\n"
  \o "    value: " \o FloatStr(st.value) \o "\n"
  \o "    image_size: " \o str(st.image_size) \o "\n"
  \o NoteTail

\* filter(lambda v: v.nodeType == COMMENT_NODE, dom.childNodes)
CommentsOf(d) ==
  SelectSeq(d.childNodes, LAMBDA c : d.nodes[c].nodeType = "COMMENT")

\* faulty variants: the note replaces the comment; the note is put last
AnnotateReplace(note, data) == note
AnnotateAppend(note, data) == data \o note

\* comment.data = note + comment.data
Annotate(note, data) == note \o data

\* _comment_copyright: next() of an empty filter raises StopIteration
_comment_copyright(d, st) ==
  IF CommentsOf(d) = << >> THEN [raised |-> "StopIteration", dom |-> d]
  ELSE LET comment == Head(CommentsOf(d))
       IN  [raised |-> "",
            dom |-> [d EXCEPT !.nodes[comment].data = Annotate(Note(st), @)]]

\* repr(float(image_size) / 109): the quotient is kept as the fraction
Ratio(size) == str(size) \o "/109"

\* the loop of _resize_svg that moves the children of svg into scale_g
RECURSIVE MoveAll(_, _, _)
MoveAll(d, childs, target) ==
  IF childs = << >> THEN d
  ELSE MoveAll(appendChild(d, target, Head(childs)), Tail(childs), target)

\* a faulty variant: the loop runs over svg.childNodes itself, which loses
\* a node at each move, so that every second child is passed over
ChildsToWrapLive(d, svg) ==
  [i \in 1 .. ((Len(ChildNodes(d, svg)) + 1) \div 2) |-> ChildNodes(d, svg)[2 * i - 1]]

\* the children _resize_svg hands to scale_g: list(svg.childNodes)
ChildsToWrap(d, svg) == ChildNodes(d, svg)

\* _resize_svg: svg.attributes[name] raises KeyError for a missing attribute
_resize_svg(d, svg, st) ==
  LET size == str(st.image_size)
  IN  IF ~ hasAttribute(d, svg, "width") THEN [raised |-> "KeyError", dom |-> d]
      ELSE IF ~ hasAttribute(d, svg, "height")
      THEN [raised |-> "KeyError", dom |-> SetAttribute(d, svg, "width", size)]
      ELSE IF ~ hasAttribute(d, svg, "viewBox")
      THEN [raised |-> "KeyError",
            dom |-> SetAttribute(SetAttribute(d, svg, "width", size),
                                 svg, "height", size)]
      ELSE
        LET d1 == SetAttribute(SetAttribute(SetAttribute(d, svg, "width", size),
                                svg, "height", size),
                                svg, "viewBox", "0 0 " \o size \o " " \o size)
            scale_g == Len(d1.nodes) + 1
            d2 == CreateNode(d1, Element("g",
                     [id |-> "scaleTransform",
                      transform |-> "scale(" \o Ratio(st.image_size) \o ","
                                    \o Ratio(st.image_size) \o ")"]))
            d3 == MoveAll(d2, ChildsToWrap(d2, svg), scale_g)
        IN  [raised |-> "", dom |-> appendChild(d3, svg, scale_g)]

\* a faulty variant: only the children of the root element are looked at
IsEmptyTextInRoot(d, ch) ==
  /\ d.nodes[ch].nodeType = "TEXT" /\ isspace(d.nodes[ch].data)
  /\ d.nodes[d.nodes[ch].parentNode].parentNode = 0

\* whether _remove_empty_text removes the child ch of a node
IsEmptyText(d, ch) ==
  d.nodes[ch].nodeType = "TEXT" /\ isspace(d.nodes[ch].data)

\* _remove_empty_text(node): the loop over list(node.childNodes)
RECURSIVE RemoveLoop(_, _, _)
RemoveLoop(d, node, childs) ==
  IF childs = << >> THEN d
  ELSE LET ch == Head(childs)
           d1 == IF IsEmptyText(d, ch) THEN removeChild(d, node, ch)
                 ELSE IF d.nodes[ch].nodeType = "ELEMENT"
                 THEN RemoveLoop(d, ch, ChildNodes(d, ch))
                 ELSE d
       IN  RemoveLoop(d1, node, Tail(childs))

\* a faulty variant: the whitespace is left in the tree
KeepEmptyText(d, node) == d
_remove_empty_text(d, node) == RemoveLoop(d, node, ChildNodes(d, node))

(***************************************************************************)
(* toprettyxml and _modify_svg.                                            *)
(***************************************************************************)
TextTok(dp, data) ==
  IF data = "" THEN << >> ELSE << Tok("TEXT", "#text", NoAttrs, dp, data) >>

\* Node.writexml(writer, indent, addindent = '\t', newl = '\n') for the
\* nodes ids, all at depth dp
RECURSIVE WriteNodes(_, _, _)
WriteNodes(d, ids, dp) ==
  IF ids = << >> THEN << >>
  ELSE
    LET n  == d.nodes[Head(ids)]
        cs == n.childNodes
        this ==
          IF n.nodeType = "ELEMENT"
          THEN TextTok(dp, Tabs(dp))
               \o << Tok("ELEMENT", n.nodeName, n.attributes, dp, "") >>
               \o (IF cs = << >> THEN << >>
                   ELSE IF Len(cs) = 1 /\ d.nodes[cs[1]].nodeType = "TEXT"
                   THEN TextTok(dp + 1, d.nodes[cs[1]].data)
                   ELSE TextTok(dp + 1, "\n") \o WriteNodes(d, cs, dp + 1)
                        \o TextTok(dp + 1, Tabs(dp)))
               \o TextTok(dp, "\n")
          ELSE TextTok(dp, Tabs(dp))
               \o << Tok(n.nodeType, n.nodeName, NoAttrs, dp, n.data) >>
               \o TextTok(dp, "\n")
    IN  this \o WriteNodes(d, Tail(ids), dp)

\* dom.toprettyxml(encoding='UTF-8', newl='\n').decode()
toprettyxml(d) == WriteNodes(d, d.childNodes, 0)

\* a faulty variant: group_mode is not looked at
ColorSvgStrokesOnly(d, svg, st) == _color_svg_strokes(d, svg, st)

\* the coloring _modify_svg selects
ColorSvg(d, svg, st) ==
  IF st.group_mode THEN _color_svg_groups(d, svg, st)
  ELSE _color_svg_strokes(d, svg, st)

\* _modify_svg: the exception raised, or the text returned
_modify_svg(src, st) ==
  LET p == parseString(src)
  IN  IF p.raised # "" THEN [raised |-> p.raised, ret |-> << >>]
      ELSE
        LET d1   == _remove_empty_text(p.dom, 0)
            svgs == getElementsByTagName(d1, 0, "svg")
        IN  IF svgs = << >> THEN [raised |-> "IndexError", ret |-> << >>]
            ELSE
              LET c == ColorSvg(d1, svgs[1], st)
              IN  IF c.raised # "" THEN [raised |-> c.raised, ret |-> << >>]
                  ELSE
                    LET r == _resize_svg(c.dom, svgs[1], st)
                    IN  IF r.raised # "" THEN [raised |-> r.raised, ret |-> << >>]
                        ELSE
                          LET m == _comment_copyright(r.dom, st)
                          IN  IF m.raised # ""
                              THEN [raised |-> m.raised, ret |-> << >>]
                              ELSE [raised |-> "", ret |-> toprettyxml(m.dom)]

(***************************************************************************)
(* The source texts tried.                                                 *)
(***************************************************************************)
Comment(data) == Tok("COMMENT", "#comment", NoAttrs, 0, data)

\* the comments that precede the root element
Headers ==
  { << >>,
    << Comment("Copyright (C) 2009") >>,
    << Comment("Copyright (C) 2009"), Comment("second") >> }

\* s, one level deeper
Indented(s) == [i \in 1 .. Len(s) |-> [s[i] EXCEPT !.depth = @ + 1]]

\* the two layouts of a stroke diagram: strokes and stroke numbers directly
\* in the svg element, or, as KanjiVG writes them, each in a group of its own
Layout(wrapped, strokes, numbers) ==
  IF wrapped
  THEN << TokOf("g", 1) >> \o Indented(strokes)
       \o (IF numbers = << >> THEN << >>
           ELSE << TokOf("g", 1) >> \o Indented(numbers))
  ELSE strokes \o numbers

\* stroke diagrams: a copyright comment and an svg element of groups, paths
\* and texts, the last texts being the stroke numbers
ColorSrcs ==
  { << Comment("Copyright (C) 2009"), TokOf("svg", 0) >>
      \o Layout(w, s, Labels(l)) :
      w \in BOOLEAN,
      s \in InnerSeqs(MaxNodes, {"ge", "path", "text"}),
      l \in 0 .. MaxLabels }

\* documents with any kind of node in the root element
TreeSrcs ==
  { h \o << TokOf(r, 0) >> \o s :
      h \in Headers, r \in {"svg", "svg_bare"},
      s \in InnerSeqs(MaxTreeNodes, {"g", "path", "ws", "chars", "comment"}) }

\* texts that are no document, or a document without an svg element
OtherSrcs ==
  { << >>,
    << Comment("Copyright (C) 2009") >>,
    << TokOf("chars", 0) >>,
    << TokOf("svg", 0), TokOf("svg", 0) >>,
    << TokOf("svg", 0), TokOf("path", 2) >>,
    << TokOf("g", 0) >>,
    << Comment("Copyright (C) 2009"), TokOf("ge", 0), TokOf("path", 1) >> }

(***************************************************************************)
(* KanjiVG objects and write_all.  The source directory holds five files,  *)
(* listed in one order; variant names are one letter long here.  Creating  *)
(* the output directory and failures of the file system other than a       *)
(* missing source file are left out.                                       *)
(***************************************************************************)
\* '%05x' % ord(c), for the characters tried
Code05x(c) ==
  CASE c = "a" -> "00061" [] c = "j" -> "0006a" [] c = "K" -> "0004b"
    [] c = "L" -> "0004c" [] c = "," -> "0002c" [] c = "-" -> "0002d"
    [] c = "x" -> "00078"

\* chr(int(code, 16))
ChrOfCode(code) ==
  CASE code = "00061" -> "a" [] code = "0006a" -> "j" [] code = "0004b" -> "K"
    [] code = "00078" -> "x"

\* the characters of a Python string, as one TLA+ string
RECURSIVE Text(_)
Text(s) == IF s = << >> THEN "" ELSE Head(s) \o Text(Tail(s))

\* os.listdir(source_directory): each name as the two groups the pattern
\* of _create_from_filename finds in it
listdir ==
  << [code |-> "00061", variant |-> << >>],
     [code |-> "0006a", variant |-> << >>],
     [code |-> "00078", variant |-> << >>],
     [code |-> "0006a", variant |-> << "K" >>],
     [code |-> "0004b", variant |-> << >>] >>

\* the name of a source file
FileName(e) ==
  IF e.variant = << >> THEN e.code \o ".svg"
  ELSE e.code \o "-" \o Text(e.variant) \o ".svg"

\* f.read() of a source file: KanjiVG's layout, one to three strokes; the
\* file of x has lost its copyright comment
ReadFile(name) ==
  IF name = "00078.svg" THEN << TokOf("svg", 0), TokOf("path", 1) >>
  ELSE
  << Comment("Copyright (C) 2009"), TokOf("svg", 0) >>
  \o CASE name = "00061.svg" ->
            Layout(TRUE, << TokOf("ge", 1), TokOf("path", 2) >>, Labels(1))
       [] name = "0006a.svg" ->
            Layout(TRUE, << TokOf("ge", 1), TokOf("path", 2), TokOf("path", 2) >>,
                   Labels(2))
       [] name = "0006a-K.svg" ->
            Layout(TRUE, << TokOf("ge", 1), TokOf("path", 2), TokOf("ge", 2),
                            TokOf("path", 3), TokOf("path", 3) >>, Labels(2))
       [] name = "0004b.svg" ->
            Layout(TRUE, << TokOf("ge", 1), TokOf("path", 2) >>, << >>)

NoKanji == [character |-> << >>, variant |-> << >>, svg |-> << >>]

\* KanjiVG.ascii_filename: ord() raises TypeError for anything but a string
\* of length one
ascii_filename(character, variant) ==
  IF character = None \/ Len(character) # 1
  THEN [raised |-> "InvalidCharacterError", args |-> << character, variant >>,
        name |-> ""]
  ELSE [raised |-> "", args |-> << >>,
        name |-> IF variant = << >> THEN Code05x(character[1]) \o ".svg"
                 ELSE Code05x(character[1]) \o "-" \o Text(variant) \o ".svg"]

\* KanjiVG.character_filename
character_filename(character, variant) ==
  IF variant = << >> THEN Text(character) \o ".svg"
  ELSE Text(character) \o "-" \o Text(variant) \o ".svg"

\* KanjiVG(character, variant)
KanjiVG(character, variant) ==
  LET self_variant == IF variant = None THEN << >> ELSE variant
      f == ascii_filename(character, self_variant)
  IN  IF f.raised # ""
      THEN [raised |-> f.raised, args |-> f.args, kanji |-> NoKanji]
      ELSE IF \A k \in 1 .. Len(listdir) : FileName(listdir[k]) # f.name
      THEN [raised |-> "InvalidCharacterError", args |-> << character, variant >>,
            kanji |-> NoKanji]
      ELSE [raised |-> "", args |-> << >>,
            kanji |-> [character |-> character, variant |-> self_variant,
                       svg |-> ReadFile(f.name)]]

\* KanjiVG._create_from_filename
_create_from_filename(e) == KanjiVG(<< ChrOfCode(e.code) >>, e.variant)

\* KanjiVG.get_all
get_all == [k \in 1 .. Len(listdir) |-> _create_from_filename(listdir[k]).kanji]

\* KanjiColorizer._get_dst_filename
_get_dst_filename(st, kanji) ==
  IF st.filename_mode = "character"
  THEN character_filename(kanji.character, kanji.variant)
  ELSE ascii_filename(kanji.character, kanji.variant).name

\* str.split(sep)
RECURSIVE split(_, _)
split(s, sep) ==
  IF \A i \in 1 .. Len(s) : s[i] # sep THEN << s >>
  ELSE LET i == CHOOSE i \in 1 .. Len(s) :
                  s[i] = sep /\ \A j \in 1 .. i - 1 : s[j] # sep
       IN  << SubSeq(s, 1, i - 1) >> \o split(SubSeq(s, i + 1, Len(s)), sep)

\* sep.join(l)
RECURSIVE join(_, _)
join(sep, l) ==
  IF l = << >> THEN << >>
  ELSE IF Len(l) = 1 THEN l[1]
  ELSE l[1] \o << sep >> \o join(sep, Tail(l))

\* write_all: what the for loop over settings.characters iterates, the
\* characters of a str or the items of a list
Items(chars) ==
  IF chars.type = "str" THEN [i \in 1 .. Len(chars.value) |-> << chars.value[i] >>]
  ELSE chars.value

\* write_all: ',' in settings.characters, for a str and for a list
HasComma(chars) ==
  IF chars.type = "str" THEN \E i \in 1 .. Len(chars.value) : chars.value[i] = ","
  ELSE \E i \in 1 .. Len(chars.value) : chars.value[i] = << "," >>

\* write_all: the KanjiVG an entry of the loop names, c or c-variant
KanjiOf(c) ==
  IF \E i \in 1 .. Len(c) : c[i] = "-"
  THEN LET varsplit == split(c, "-")
       IN  KanjiVG(varsplit[1], join("-", Tail(varsplit)))
  ELSE KanjiVG(c, << >>)

\* write_all: except InvalidCharacterError: pass, the loop goes on with the
\* entries that follow
StopAtInvalid(rest) == << >>
AfterInvalid(rest) == rest

\* write_all: the loop that collects the KanjiVG objects of the entries
RECURSIVE Collect(_)
Collect(items) ==
  IF items = << >> THEN << >>
  ELSE LET k == KanjiOf(Head(items))
       IN  IF k.raised = "InvalidCharacterError"
           THEN Collect(AfterInvalid(Tail(items)))
           ELSE << k.kanji >> \o Collect(Tail(items))

\* a faulty variant: the file is opened before the transform is made
WriteSvgsOpenFirst(st, characters, svg) ==
  LET bad == { k \in 1 .. Len(characters) : svg[k].raised # "" }
      n   == IF bad = { } THEN Len(characters)
             ELSE CHOOSE k \in bad : \A j \in bad : k <= j
  IN  [raised |-> IF bad = { } THEN "" ELSE svg[n].raised,
       written |-> [k \in 1 .. n |->
                      [name |-> _get_dst_filename(st, characters[k]),
                       character |-> characters[k].character,
                       variant |-> characters[k].variant,
                       text |-> svg[k].ret]]]

\* write_all: the loop that writes one file for each KanjiVG object, svg
\* being what _modify_svg makes of each; an exception of _modify_svg ends it
WriteSvgs(st, characters, svg) ==
  LET bad == { k \in 1 .. Len(characters) : svg[k].raised # "" }
      n   == IF bad = { } THEN Len(characters)
             ELSE (CHOOSE k \in bad : \A j \in bad : k <= j) - 1
  IN  [raised |-> IF bad = { } THEN "" ELSE svg[n + 1].raised,
       written |-> [k \in 1 .. n |->
                      [name |-> _get_dst_filename(st, characters[k]),
                       character |-> characters[k].character,
                       variant |-> characters[k].variant,
                       text |-> svg[k].ret]]]

WriteLoop(st, characters) ==
  WriteSvgs(st, characters,
            [k \in 1 .. Len(characters) |-> _modify_svg(characters[k].svg, st)])

\* KanjiColorizer.write_all: the exception raised, settings.characters as it
\* leaves it, and the files written in order
write_all(st) ==
  LET given == st.characters.type # "NoneType" /\ st.characters.value # << >>
      comma == given /\ HasComma(st.characters) /\ Len(st.characters.value) > 1
      chars == IF comma /\ st.characters.type = "str"
               THEN ListOf(split(st.characters.value, ","))
               ELSE st.characters
      characters == IF given THEN Collect(Items(chars)) ELSE get_all
  IN  IF comma /\ st.characters.type = "list"
      THEN [characters |-> st.characters, raised |-> "AttributeError",
            written |-> << >>]
      ELSE [characters |-> chars] @@ WriteLoop(st, characters)

(***************************************************************************)
(* The state.  settings is KanjiColorizer.settings; dom the document a     *)
(* caller holds (NoDom: none), log the calls made on it so far, each     *)
(* with the settings and the document it found; ret the outcome of the     *)
(* last call that returns a value; gen a generator object and yielded what *)
(* has been taken from it.                                                 *)
(***************************************************************************)
NoGen == [n |-> -1, i |-> 0, state |-> "none"]

NoRet == [op |-> "", raised |-> "", src |-> << >>, st |-> [none |-> TRUE], value |-> << >>]

Init ==
  /\ \E a \in ArgStrings : settings = parse_args(a)
  /\ gen = NoGen
  /\ yielded = << >>
  /\ dom = NoDom
  /\ log = << >>
  /\ ret = NoRet
  /\ files = { }

\* read_arg_string
ReadArgString ==
  /\ \E a \in ArgStrings : settings' = parse_args(a)
  /\ UNCHANGED <<gen, yielded, dom, log, ret, files>>

\* kc._color_generator(n): creates the generator; its body has not run yet
GenCreate ==
  /\ gen.state = "none"
  /\ \E n \in 0 .. MaxN : gen' = [n |-> n, i |-> 0, state |-> "suspended"]
  /\ UNCHANGED <<settings, yielded, dom, log, ret, files>>

\* next(generator): runs the body up to the next yield, or to its end
GenNext ==
  /\ gen.state = "suspended"
  /\ IF InRange(gen.i, gen.n)
     THEN LET c == ColorAt(settings, gen.i, gen.n)
          IN  IF c = "ZeroDivisionError"
              THEN /\ gen' = [gen EXCEPT !.state = "finished"]
                   /\ ret' = [NoRet EXCEPT !.op = "next", !.raised = c]
                   /\ UNCHANGED yielded
              ELSE /\ gen' = [gen EXCEPT !.i = @ + 1]
                   /\ yielded' = Append(yielded, c)
                   /\ ret' = [NoRet EXCEPT !.op = "next"]
     ELSE /\ gen' = [gen EXCEPT !.state = "finished"]
          /\ ret' = [NoRet EXCEPT !.op = "next", !.raised = "StopIteration"]
          /\ UNCHANGED yielded
  /\ UNCHANGED <<settings, dom, log, files>>

\* dom = minidom.parseString(src), for a caller that holds no document
Parse(src) ==
  /\ LET p == parseString(src)
     IN  /\ dom' = p.dom
         /\ ret' = [NoRet EXCEPT !.op = "parseString", !.raised = p.raised,
                                 !.src = src]
  /\ UNCHANGED <<settings, gen, yielded, log, files>>

ParseString ==
  /\ dom = NoDom
  /\ ret = NoRet
  /\ \E src \in TreeSrcs \cup OtherSrcs : Parse(src)

ParseDiagram ==
  /\ dom = NoDom
  /\ ret = NoRet
  /\ \E src \in ColorSrcs : Parse(src)

\* the svg element callers hand to the private methods
SvgOf(d) == getElementsByTagName(d, 0, "svg")

\* one of the private methods, called on the caller's document
Stage(op, d, st) ==
  CASE op = "_remove_empty_text" -> [raised |-> "", dom |-> _remove_empty_text(d, 0)]
    [] op = "_color_svg_strokes" -> _color_svg_strokes(d, SvgOf(d)[1], st)
    [] op = "_color_svg_groups"  -> _color_svg_groups(d, SvgOf(d)[1], st)
    [] op = "_resize_svg"        -> _resize_svg(d, SvgOf(d)[1], st)
    [] op = "_comment_copyright" -> _comment_copyright(d, st)

Call(op, limit) ==
  /\ dom # NoDom
  /\ Len(log) < limit
  /\ op # "_remove_empty_text" /\ op # "_comment_copyright" => SvgOf(dom) # << >>
  /\ LET r == Stage(op, dom, settings)
     IN  /\ dom' = r.dom
         /\ log' = Append(log, [op |-> op, st |-> settings, raised |-> r.raised,
                                before |-> dom])
  /\ UNCHANGED <<settings, gen, yielded, ret, files>>

\* each method on a document as parsed; the annotation also again and again
RemoveEmptyText == Call("_remove_empty_text", 1)
ResizeSvg == Call("_resize_svg", 1)
ColorSvgStrokes == Call("_color_svg_strokes", 1)
ColorSvgGroups == Call("_color_svg_groups", 1)
CommentCopyright ==
  /\ \A k \in 1 .. Len(log) : log[k].op = "_comment_copyright"
  /\ Call("_comment_copyright", MaxCalls)

\* svg = kc._modify_svg(src), for a caller that holds no document
ModifySvg ==
  /\ dom = NoDom
  /\ ret = NoRet
  /\ \E src \in TreeSrcs \cup OtherSrcs \cup ColorSrcs :
       LET r == _modify_svg(src, settings)
       IN  ret' = [op |-> "_modify_svg", raised |-> r.raised, src |-> src,
                   st |-> settings, value |-> r.ret]
  /\ UNCHANGED <<settings, gen, yielded, dom, log, files>>

\* kc.settings.enable_grid = True: a caller sets an attribute on the
\* settings namespace, an attribute no option of the parser sets
EnableGrid ==
  /\ "enable_grid" \notin DOMAIN settings
  /\ settings' = ("enable_grid" :> TRUE) @@ settings
  /\ UNCHANGED <<gen, yielded, dom, log, ret, files>>

\* the hues, saturations and values _hsv_to_rgbhexcode is tried on
Hues == { << k, HueSteps >> : k \in 0 .. HueSteps } \cup { << 0, 1 >>, << 1, 2 >>, << 2, 3 >> }
Saturations == {0, 50, 95, 100}
Values == {0, 75, 100}

\* kc._hsv_to_rgbhexcode(h, s, v)
HsvToRgbHexcode ==
  /\ \E hue \in Hues, s \in Saturations, v \in Values :
       ret' = [NoRet EXCEPT !.op = "_hsv_to_rgbhexcode",
                            !.src = << hue[1], hue[2], s, v >>,
                            !.value = << _hsv_to_rgbhexcode(hue, s, v) >>]
  /\ UNCHANGED <<settings, gen, yielded, dom, log, files>>

\* the strings given to --characters: two characters that have source files,
\* one that has none, and the two separators
Alphabet == {"j", "K", "L", ",", "-"}
CharStrings == UNION { [1 .. n -> Alphabet] : n \in 1 .. MaxChars }

\* read_arg_string('--characters=... --filename-mode ...')
ReadCharacters ==
  /\ log = << >>
  /\ ret = NoRet
  /\ settings.characters = NoCharacters
  /\ \E s \in CharStrings, m \in {"character", "code"} :
       settings' = parse_args(<< Opt("characters", StrOf(s)),
                                 Opt("filename_mode", m) >>)
  /\ UNCHANGED <<gen, yielded, dom, log, ret, files>>

\* the arguments KanjiVG is constructed with
CharacterArgs == { << "j" >>, << "K" >>, << "L" >>, << "j", "K" >>, << >>, None }
VariantArgs == { << >>, << "K" >>, << "g" >>, None }

\* KanjiVG(character, variant): value is what the exception carries, or the
\* character and variant of the object
NewKanjiVG ==
  /\ log = << >>
  /\ settings.characters = NoCharacters
  /\ \E character \in CharacterArgs, variant \in VariantArgs :
       LET k == KanjiVG(character, variant)
       IN  ret' = [op |-> "KanjiVG", raised |-> k.raised,
                   src |-> << character, variant >>, st |-> settings,
                   value |-> IF k.raised # "" THEN k.args
                             ELSE << k.kanji.character, k.kanji.variant >>]
  /\ UNCHANGED <<settings, gen, yielded, dom, log, files>>

\* open(dst_file_path, 'w') and f.write(svg), for each file in turn
RECURSIVE WriteFiles(_, _)
WriteFiles(dir, written) ==
  IF written = << >> THEN dir
  ELSE WriteFiles({ f \in dir : f.name # Head(written).name }
                  \cup { [name |-> Head(written).name, text |-> Head(written).text] },
                  Tail(written))

\* write_all: what a run r leaves behind
Finish(r) ==
  /\ settings' = [settings EXCEPT !.characters = r.characters]
  /\ files' = WriteFiles(files, r.written)
  /\ ret' = [op |-> "write_all", raised |-> r.raised, src |-> << >>,
             st |-> settings, value |-> r.written]
  /\ log' = Append(log, [op |-> "write_all", st |-> settings,
                         raised |-> r.raised, before |-> NoDom])

\* kc.write_all()
WriteAll ==
  /\ Len(log) < MaxRuns
  /\ \A k \in 1 .. Len(log) : log[k].op = "write_all"
  /\ dom = NoDom
  /\ Finish(write_all(settings))
  /\ UNCHANGED <<gen, yielded, dom>>

\* the colour generator on its own
NextGen == GenCreate \/ GenNext

SpecGen == Init /\ [][NextGen]_vars

\* the coloring methods on stroke diagrams
NextColor == ParseDiagram \/ ColorSvgStrokes \/ ColorSvgGroups

SpecColor == Init /\ [][NextColor]_vars

\* the whole transform under settings with the grid attribute
NextGrid == EnableGrid \/ ModifySvg

SpecGrid == Init /\ [][NextGrid]_vars

\* the colour conversion on its own
NextHsv == HsvToRgbHexcode

SpecHsv == Init /\ [][NextHsv]_vars

\* KanjiVG objects and the files write_all writes
NextFiles == ReadCharacters \/ NewKanjiVG \/ WriteAll

SpecFiles == Init /\ [][NextFiles]_vars

\* the tree methods and the whole transform
Next ==
  \/ ReadArgString
  \/ ParseString
  \/ RemoveEmptyText
  \/ ResizeSvg
  \/ CommentCopyright
  \/ ModifySvg

Spec == Init /\ [][Next]_vars

(***************************************************************************)
(* Properties of the colour generator (SpecGen).                           *)
(***************************************************************************)

C6_ContrastPrefixSpectrumHue ==
  gen.state # "none" =>
    /\ settings.mode = "contrast" =>
         \A m \in gen.n .. MaxN :
           yielded = SubSeq(_color_generator(settings, m), 1, Len(yielded))
    /\ settings.mode = "spectrum" =>
         \A k \in 1 .. Len(yielded) :
           yielded[k] = _hsv_to_rgbhexcode(<< k - 1, gen.n >>,
                                           settings.saturation, settings.value)

\* a contrast generator of two or more colours, but not the most, run to
\* its end
C6_Witness ==
  /\ settings.mode = "contrast"
  /\ gen.state = "finished"
  /\ gen.n >= 2 /\ gen.n < MaxN
  /\ Len(yielded) = gen.n

(***************************************************************************)
(* Properties of the coloring methods (SpecColor).  In a document as       *)
(* parsed the ids of the nodes follow document order, so the i-th element  *)
(* of a name is the one with i elements of that name up to it.             *)
(***************************************************************************)
Called(op) == log # << >> /\ log[Len(log)].op = op
Returned(op) == Called(op) /\ log[Len(log)].raised = ""
Last == log[Len(log)]

Named(d, name) ==
  { id \in 1 .. Len(d.nodes) :
      d.nodes[id].nodeType = "ELEMENT" /\ d.nodes[id].nodeName = name }

Rank(S, id) == Cardinality({ x \in S : x <= id })

\* the attributes of a node that was given a style
Styled(attrs, style) == ("style" :> style) @@ attrs

\* the groups that carry an attribute and have a path as a child
Qualifying(d, attribute) ==
  { g \in Named(d, "g") :
      /\ attribute \in DOMAIN d.nodes[g].attributes
      /\ \E p \in Named(d, "path") : d.nodes[p].parentNode = g }

DirectPaths(d, g) == { p \in Named(d, "path") : d.nodes[p].parentNode = g }

\* the number of texts the qualifying groups before g use up
TextsBefore(d, g) ==
  Cardinality({ p \in Named(d, "path") :
                  /\ d.nodes[p].parentNode \in Qualifying(d, GroupAttr)
                  /\ d.nodes[p].parentNode < g })

\* the qualifying groups that use up the r-th text
GroupsOfText(d, r) ==
  { g \in Qualifying(d, GroupAttr) :
      /\ TextsBefore(d, g) < r
      /\ r <= TextsBefore(d, g) + Cardinality(DirectPaths(d, g)) }

\* C1: _color_svg_strokes on a document of P paths and T <= P texts returns,
\* and leaves the i-th path with the style 'stroke: c_i;' and the i-th text
\* with the style 'fill: c_i;', c being one generation of P colours; nothing
\* else in the document differs from before.
C1_StrokesColored ==
  Called("_color_svg_strokes") =>
    LET b     == Last.before
        paths == Named(b, "path")
        texts == Named(b, "text")
        c     == _color_generator(Last.st, Cardinality(paths))
    IN  Cardinality(texts) <= Cardinality(paths) =>
          /\ Last.raised = ""
          /\ Len(c) = Cardinality(paths)
          /\ dom.childNodes = b.childNodes
          /\ Len(dom.nodes) = Len(b.nodes)
          /\ \A id \in 1 .. Len(b.nodes) :
               dom.nodes[id] =
                 IF id \in paths
                 THEN [b.nodes[id] EXCEPT !.attributes =
                         Styled(@, "stroke: " \o c[Rank(paths, id)] \o ";")]
                 ELSE IF id \in texts
                 THEN [b.nodes[id] EXCEPT !.attributes =
                         Styled(@, "fill: " \o c[Rank(texts, id)] \o ";")]
                 ELSE b.nodes[id]

\* strokes were colored in a document with a stroke number and with more
\* paths than stroke numbers, one path inside a group
C1_Witness ==
  /\ Returned("_color_svg_strokes")
  /\ Cardinality(Named(Last.before, "text")) >= 1
  /\ Cardinality(Named(Last.before, "path")) > Cardinality(Named(Last.before, "text"))
  /\ \E p \in Named(Last.before, "path") :
       Last.before.nodes[p].parentNode \in Named(Last.before, "g")

\* C2: _color_svg_groups generates one colour per qualifying group; the j-th
\* qualifying group's colour becomes the stroke style of the paths that are
\* its children, and the fill style of the next k texts of the document not
\* yet used (as many of them as there are), k being the number of those
\* paths; nothing else in the document differs from before.
C2_GroupsColored ==
  Called("_color_svg_groups") =>
    LET b     == Last.before
        paths == Named(b, "path")
        texts == Named(b, "text")
        Q     == Qualifying(b, GroupAttr)
        c     == _color_generator(Last.st, Cardinality(Q))
    IN  /\ Last.raised = ""
        /\ Len(c) = Cardinality(Q)
        /\ dom.childNodes = b.childNodes
        /\ Len(dom.nodes) = Len(b.nodes)
        /\ \A id \in 1 .. Len(b.nodes) :
             dom.nodes[id] =
               IF id \in paths /\ b.nodes[id].parentNode \in Q
               THEN [b.nodes[id] EXCEPT !.attributes =
                       Styled(@, "stroke: " \o c[Rank(Q, b.nodes[id].parentNode)] \o ";")]
               ELSE IF id \in texts /\ GroupsOfText(b, Rank(texts, id)) # {}
               THEN [b.nodes[id] EXCEPT !.attributes =
                       Styled(@, "fill: "
                                 \o c[Rank(Q, CHOOSE g \in GroupsOfText(b, Rank(texts, id)) : TRUE)]
                                 \o ";")]
               ELSE b.nodes[id]

\* groups were colored in a document where a qualifying group lies in
\* another one, and a text took the colour of the second
C2_Witness ==
  /\ Returned("_color_svg_groups")
  /\ \E g \in Qualifying(Last.before, GroupAttr) :
       /\ Last.before.nodes[g].parentNode \in Qualifying(Last.before, GroupAttr)
       /\ \E t \in Named(Last.before, "text") :
            g \in GroupsOfText(Last.before, Rank(Named(Last.before, "text"), t))

\* C3: _get_nonempty_elements(svg, attr) is, in document order, the g
\* elements below svg that carry attr and have a path as a child, whatever
\* lies above or below them; with it _color_svg_groups uses no more colours
\* than there are such groups.
C3_NonemptyElements ==
  dom # NoDom /\ SvgOf(dom) # << >> =>
    /\ \A attribute \in {GroupAttr, "style"} :
         LET r == _get_nonempty_elements(dom, SvgOf(dom)[1], attribute)
         IN  /\ \A i \in 1 .. Len(r) - 1 : r[i] < r[i + 1]
             /\ { r[i] : i \in 1 .. Len(r) } = Qualifying(dom, attribute)
    /\ Returned("_color_svg_groups") =>
         LET r == _get_nonempty_elements(Last.before, SvgOf(dom)[1], GroupAttr)
         IN  \A p \in Named(dom, "path") :
               "style" \in DOMAIN dom.nodes[p].attributes =>
                 \E j \in 1 .. Len(r) :
                   dom.nodes[p].attributes["style"]
                     = "stroke: " \o _color_generator(Last.st, Len(r))[j] \o ";"

\* an attributed group without a path of its own holds an attributed group
\* with one: the inner group alone is returned and one colour is used
C3_Witness ==
  /\ Returned("_color_svg_groups")
  /\ \E outer, inner \in Named(Last.before, "g") :
       /\ GroupAttr \in DOMAIN Last.before.nodes[outer].attributes
       /\ DirectPaths(Last.before, outer) = {}
       /\ Last.before.nodes[inner].parentNode = outer
       /\ Cardinality(DirectPaths(Last.before, inner)) = 1
       /\ _get_nonempty_elements(Last.before, SvgOf(dom)[1], GroupAttr) = << inner >>
       /\ \A p \in DirectPaths(Last.before, inner) :
            dom.nodes[p].attributes["style"]
              = "stroke: " \o _color_generator(Last.st, 1)[1] \o ";"

\* C4: after _color_svg_groups every text that was given a fill colour has
\* the stroke colour of the path of the same position in document order.
C4_LabelSharesStrokeColor ==
  Returned("_color_svg_groups") =>
    LET b     == Last.before
        paths == Named(b, "path")
        texts == Named(b, "text")
        c     == _color_generator(Last.st, Cardinality(Qualifying(b, GroupAttr)))
    IN  \A t \in texts :
          dom.nodes[t] # b.nodes[t] =>
            \E p \in paths :
              /\ Rank(paths, p) = Rank(texts, t)
              /\ "style" \in DOMAIN dom.nodes[p].attributes
              /\ \E j \in 1 .. Len(c) :
                   /\ dom.nodes[t].attributes["style"] = "fill: " \o c[j] \o ";"
                   /\ dom.nodes[p].attributes["style"] = "stroke: " \o c[j] \o ";"

(***************************************************************************)
(* Properties of the tree methods and of the whole transform (Spec).       *)
(***************************************************************************)

\* the comments that are children of the document
TopComments(d) ==
  { id \in 1 .. Len(d.nodes) :
      d.nodes[id].nodeType = "COMMENT" /\ d.nodes[id].parentNode = 0 }

FirstOf(S) == CHOOSE x \in S : \A y \in S : x <= y

\* the lines of the note that name the settings
SettingsLines(st) ==
  "    mode: " \o st.mode \o "\n"
  \o "    saturation: " \o FloatStr(st.saturation) \o "\n"
  \o "    value: " \o FloatStr(st.value) \o "\n"
  \o "    image_size: " \o str(st.image_size) \o "\n"

\* C7: when _resize_svg with image size S returns, the root has width and
\* height S and viewBox '0 0 S S', and one child: a new g element with id
\* 'scaleTransform' and transform 'scale(S/109,S/109)' that holds the root's
\* previous children in their previous order; apart from their parent these
\* children, and all other nodes, are as before.
C7_Resized ==
  Returned("_resize_svg") =>
    LET b   == Last.before
        svg == FirstOf(Named(b, "svg"))
        S   == str(Last.st.image_size)
        g   == Len(b.nodes) + 1
    IN  /\ Len(dom.nodes) = g
        /\ dom.childNodes = b.childNodes
        /\ dom.nodes[svg] =
             [b.nodes[svg] EXCEPT
                !.attributes = [width |-> S, height |-> S,
                                viewBox |-> "0 0 " \o S \o " " \o S],
                !.childNodes = << g >>]
        /\ dom.nodes[g] =
             [nodeType |-> "ELEMENT", nodeName |-> "g",
              attributes |-> [id |-> "scaleTransform",
                              transform |-> "scale(" \o S \o "/109," \o S \o "/109)"],
              childNodes |-> b.nodes[svg].childNodes,
              data |-> "", parentNode |-> svg]
        /\ \A id \in 1 .. Len(b.nodes) :
             id # svg =>
               dom.nodes[id] = IF b.nodes[id].parentNode = svg
                               THEN [b.nodes[id] EXCEPT !.parentNode = g]
                               ELSE b.nodes[id]

\* a root of two children, one of them no element, was resized to 100
C7_Witness ==
  /\ Returned("_resize_svg")
  /\ Last.st.image_size = 100
  /\ LET b == Last.before
     IN  /\ Len(b.nodes[FirstOf(Named(b, "svg"))].childNodes) = 2
         /\ \E c \in 1 .. Len(b.nodes) :
              /\ b.nodes[c].parentNode = FirstOf(Named(b, "svg"))
              /\ b.nodes[c].nodeType # "ELEMENT"

\* C8: when _comment_copyright returns, the first comment among the
\* children of the document reads: the note, with the mode, saturation,
\* value and image size of the settings, and then all of its previous text;
\* nothing else in the document differs from before.
C8_CommentAnnotated ==
  Returned("_comment_copyright") =>
    LET b == Last.before
    IN  /\ TopComments(b) # {}
        /\ dom = [b EXCEPT !.nodes[FirstOf(TopComments(b))].data =
                    NoteHead \o SettingsLines(Last.st) \o NoteTail \o @]

\* the first of two comments of a document was annotated, a comment inside
\* the root was not
C8_Witness ==
  /\ Returned("_comment_copyright")
  /\ Len(log) = 1
  /\ Cardinality(TopComments(Last.before)) = 2
  /\ \E c \in 1 .. Len(Last.before.nodes) :
       /\ Last.before.nodes[c].nodeType = "COMMENT"
       /\ Last.before.nodes[c].parentNode # 0

\* whether the last two calls on the document were calls of
\* _comment_copyright that returned
AnnotatedTwice ==
  /\ Len(log) >= 2
  /\ Returned("_comment_copyright")
  /\ log[Len(log) - 1].op = "_comment_copyright"
  /\ log[Len(log) - 1].raised = ""

\* C9: after two calls of _comment_copyright on one document the comment
\* reads: the note of the second call, the note of the first call, the text
\* it had before the two calls.
C9_SecondNoteFirst ==
  AnnotatedTwice =>
    LET b == log[Len(log) - 1].before
        c == FirstOf(TopComments(b))
    IN  dom.nodes[c].data =
          Note(Last.st) \o Note(log[Len(log) - 1].st) \o b.nodes[c].data

\* C9 as stated: the note of the first call comes before the note of the
\* second call.
C9_FirstNoteFirst ==
  AnnotatedTwice =>
    LET b == log[Len(log) - 1].before
        c == FirstOf(TopComments(b))
    IN  dom.nodes[c].data =
          Note(log[Len(log) - 1].st) \o Note(Last.st) \o b.nodes[c].data

\* the comment was annotated twice, under settings whose notes differ
C9_Witness ==
  /\ AnnotatedTwice
  /\ Note(Last.st) # Note(log[Len(log) - 1].st)

\* C10: _modify_svg of the empty string returns the empty string and raises
\* nothing.
C10_EmptyIsNoOp ==
  ret.op = "_modify_svg" /\ ret.src = << >> =>
    ret.raised = "" /\ ret.value = << >>

\* the element that is a child of the document
RootOf(d) ==
  { id \in 1 .. Len(d.nodes) :
      d.nodes[id].nodeType = "ELEMENT" /\ d.nodes[id].parentNode = 0 }

\* a source text that is no well-formed document, or whose root is no svg
\* element
Unfit(src) ==
  LET p == parseString(src)
  IN  \/ p.raised # ""
      \/ \A r \in RootOf(p.dom) : p.dom.nodes[r].nodeName # "svg"

\* C11: _modify_svg of a text (other than the empty string) that is no
\* well-formed document, or that has no svg root, raises
\* MalformedDocumentError and nothing else, and returns nothing.
C11_MalformedDocumentError ==
  ret.op = "_modify_svg" /\ ret.src # << >> /\ Unfit(ret.src) =>
    ret.raised = "MalformedDocumentError" /\ ret.value = << >>

\* C12: on a document without a comment among the document's children
\* _comment_copyright raises nothing and changes nothing, and _modify_svg
\* of such a text, if nothing else fails, returns the serialized document.
C12_SilentWithoutComment ==
  /\ Called("_comment_copyright") /\ TopComments(Last.before) = {} =>
       Last.raised = "" /\ dom = Last.before
  /\ ( /\ ret.op = "_modify_svg"
       /\ ~ Unfit(ret.src)
       /\ TopComments(parseString(ret.src).dom) = {}
       /\ ret.raised \notin {"AttributeError", "KeyError"} ) =>
       ret.raised = "" /\ ret.value # << >>

\* the text _modify_svg returned, parsed again, without its indentation
Indentation(t) ==
  /\ t.nodeType = "TEXT"
  /\ \/ t.data = "\n"
     \/ \E k \in 1 .. Len(t.data) : t.data = Tabs(k)

Reparsed(text) == parseString(SelectSeq(text, LAMBDA t : ~ Indentation(t))).dom

GridEnabled(st) == "enable_grid" \in DOMAIN st /\ st["enable_grid"]

WithId(d, name) ==
  { g \in Named(d, "g") :
      /\ "id" \in DOMAIN d.nodes[g].attributes
      /\ d.nodes[g].attributes["id"] = name }

\* C13: in the text _modify_svg returns under settings with the grid
\* enabled there is a group with id 'Grid' that is the first child of the
\* scaleTransform group; under settings without there is no such group.
C13_GridFirstInScaleGroup ==
  ret.op = "_modify_svg" /\ ret.raised = "" =>
    LET o == Reparsed(ret.value)
    IN  IF GridEnabled(ret.st)
        THEN \E g \in WithId(o, "Grid") :
               /\ o.nodes[g].parentNode \in WithId(o, "scaleTransform")
               /\ Head(o.nodes[o.nodes[g].parentNode].childNodes) = g
        ELSE WithId(o, "Grid") = {}

\* the path and text elements of a document as parsed, in document order
Strokes(d) == Named(d, "path") \cup Named(d, "text")

KthOf(S, k) == CHOOSE x \in S : Rank(S, x) = k

RECURSIVE Depth(_, _)
Depth(d, id) == IF id = 0 THEN 0 ELSE 1 + Depth(d, d.nodes[id].parentNode)

\* what the round trip keeps of the k-th path or text: its name and depth
Shape(d, k) ==
  << d.nodes[KthOf(Strokes(d), k)].nodeName, Depth(d, KthOf(Strokes(d), k)) >>

HasStyle(d, id) == "style" \in DOMAIN d.nodes[id].attributes

Abs(x) == IF x < 0 THEN -x ELSE x

\* floor(255 * (c + m)) for c = C, X, 0, over the denominator 10000 * den
Level(kind, a, den, S, V) ==
  LET D == Abs(((6 * a) % (2 * den)) - den)
      X == CASE kind = "C" -> S * den
             [] kind = "X" -> S * (den - D)
             [] kind = "0" -> 0
  IN  (255 * V * (X + (100 - S) * den)) \div (10000 * den)

StandardRgb(a, den, S, V) ==
  LET k == ((6 * a) \div den) % 6
      order == << << "C", "X", "0" >>, << "X", "C", "0" >>, << "0", "C", "X" >>,
                  << "0", "X", "C" >>, << "X", "0", "C" >>, << "C", "0", "X" >> >>[k + 1]
  IN  [c \in 1 .. 3 |-> Level(order[c], a, den, S, V)]

TwoHex(n) == HexDigits[(n \div 16) + 1] \o HexDigits[(n % 16) + 1]

\* C15: _hsv_to_rgbhexcode(h, s, v) is '#' and, for each channel of the
\* standard conversion, floor(255 * channel) in two lowercase hex digits;
\* (0, 0, 0) gives '#000000', (2/3, 1, 1) '#0000ff' and (0.5, 0.95, 0.75)
\* '#09bfbf'.
C15_HexOfTruncatedChannels ==
  ret.op = "_hsv_to_rgbhexcode" =>
    LET rgb == StandardRgb(ret.src[1], ret.src[2], ret.src[3], ret.src[4])
    IN  /\ \A c \in 1 .. 3 : rgb[c] \in 0 .. 255
        /\ ret.value = << "#" \o TwoHex(rgb[1]) \o TwoHex(rgb[2]) \o TwoHex(rgb[3]) >>
        /\ Len(ret.value[1]) = 7
        /\ ret.src = << 0, 1, 0, 0 >> => ret.value = << "#000000" >>
        /\ ret.src = << 2, 3, 100, 100 >> => ret.value = << "#0000ff" >>
        /\ ret.src = << 1, 2, 95, 75 >> => ret.value = << "#09bfbf" >>

\* the conversion of (0.5, 0.95, 0.75), where 255 * 0.0375 = 9.5625 is cut
\* to 9
C15_Witness ==
  /\ ret.op = "_hsv_to_rgbhexcode"
  /\ ret.src = << 1, 2, 95, 75 >>
  /\ ret.value = << "#09bfbf" >>

(***************************************************************************)
(* Claims about KanjiVG objects and write_all, under SpecFiles.            *)
(***************************************************************************)
\* the entries a characters setting requests: the characters of a string,
\* or, when the string is a comma separated list, what stands between the
\* commas; the items of a list
Pieces(chars) ==
  IF chars.type = "list" THEN { chars.value[i] : i \in 1 .. Len(chars.value) }
  ELSE LET v == chars.value
           cuts == {0, Len(v) + 1} \cup { i \in 1 .. Len(v) : v[i] = "," }
       IN  IF Len(v) = 1 \/ cuts = {0, Len(v) + 1}
           THEN { << v[i] >> : i \in 1 .. Len(v) }
           ELSE { SubSeq(v, i + 1, j - 1) :
                    <<i, j>> \in { c \in cuts \X cuts :
                                    /\ c[1] < c[2]
                                    /\ \A m \in cuts : ~(c[1] < m /\ m < c[2]) } }

\* the character and the variant an entry names: what stands before and
\* after its first dash
Requested(p) ==
  LET dashes == { i \in 1 .. Len(p) : p[i] = "-" }
  IN  IF dashes = { } THEN [character |-> p, variant |-> << >>]
      ELSE LET d == CHOOSE i \in dashes : \A j \in dashes : i <= j
           IN  [character |-> SubSeq(p, 1, d - 1),
                variant |-> SubSeq(p, d + 1, Len(p))]

\* the source directory has a file for the character and variant
HasData(character, variant) ==
  /\ character # None
  /\ Len(character) = 1
  /\ \E k \in 1 .. Len(listdir) :
       /\ listdir[k].code = Code05x(character[1])
       /\ listdir[k].variant = (IF variant = None THEN << >> ELSE variant)

\* the characters and variants of the files a write_all run wrote
WrittenKanji ==
  { [character |-> ret.value[i].character, variant |-> ret.value[i].variant] :
      i \in 1 .. Len(ret.value) }

WithCharacters ==
  /\ ret.op = "write_all"
  /\ ret.st.characters.type # "NoneType"
  /\ ret.st.characters.value # << >>

C17_ErrorArgs ==
  ret.op = "KanjiVG" /\ ~HasData(ret.src[1], ret.src[2]) =>
    /\ ret.raised = "InvalidCharacterError"
    /\ ret.value = << ret.src[1], IF ret.src[2] = None THEN << >> ELSE ret.src[2] >>

\* C18: with a characters setting, every file write_all writes is the file
\* of a KanjiVG object whose variant is the empty string.
C18_NoVariants ==
  WithCharacters => \A k \in WrittenKanji : k.variant = << >>

(***************************************************************************)
(* Claims about the order of the stages and the number of colours.         *)
(***************************************************************************)
\* node id lies below node anc
RECURSIVE IsBelow(_, _, _)
IsBelow(d, id, anc) ==
  /\ id # 0
  /\ \/ d.nodes[id].parentNode = anc
     \/ IsBelow(d, d.nodes[id].parentNode, anc)

\* the text nodes of a source text or an output that hold only a space
Spaces(text) ==
  { i \in 1 .. Len(text) : text[i].nodeType = "TEXT" /\ text[i].data = " " }

\* C19: each stage of _modify_svg has acted once and in order on what the
\* call returns: no whitespace-only text of the source is left, the svg
\* element has one child, the one scaleTransform group of the document,
\* every styled path or text lies below that group, and the first comment
\* is the note followed by the comment of the source.
C19_StagesOnceInOrder ==
  ret.op = "_modify_svg" /\ ret.raised = "" =>
    LET o   == Reparsed(ret.value)
        i   == parseString(ret.src).dom
        svg == FirstOf(Named(o, "svg"))
        g   == WithId(o, "scaleTransform")
    IN  /\ Spaces(ret.value) = { }
        /\ Cardinality(g) = 1
        /\ \A x \in g : o.nodes[svg].childNodes = << x >>
        /\ \A n \in Named(o, "path") \cup Named(o, "text") :
             /\ HasStyle(o, n) => \A x \in g : IsBelow(o, n, x)
             /\ ~ ret.st.group_mode /\ o.nodes[n].nodeName = "path" => HasStyle(o, n)
        /\ Cardinality(Named(o, "path")) = Cardinality(Named(i, "path"))
        /\ o.nodes[FirstOf(TopComments(o))].data =
             NoteHead \o SettingsLines(ret.st) \o NoteTail
             \o i.nodes[FirstOf(TopComments(i))].data

\* a source with whitespace between its nodes and a path that was styled
C19_Witness ==
  /\ ret.op = "_modify_svg" /\ ret.raised = ""
  /\ Spaces(ret.src) # { }
  /\ LET o == Reparsed(ret.value)
     IN  \E n \in Named(o, "path") : HasStyle(o, n)

\* the stroke styles of the paths of a document
StrokeStyles(d) ==
  { d.nodes[p].attributes["style"] : p \in { q \in Named(d, "path") : HasStyle(d, q) } }

\* C20: a coloring method generates as many colours as it has consumers,
\* the paths per stroke and the qualifying groups in group mode: the
\* iterator is never exhausted early, no path or text is styled with a
\* missing colour, and every colour generated is the stroke of some path.
C20_ColorsMatchConsumers ==
  Called("_color_svg_strokes") \/ Called("_color_svg_groups") =>
    LET b == Last.before
        n == IF Last.op = "_color_svg_strokes" THEN Cardinality(Named(b, "path"))
             ELSE Cardinality(Qualifying(b, GroupAttr))
        c == _color_generator(Last.st, n)
    IN  /\ Last.raised # "StopIteration"
        /\ Len(c) = n
        /\ \A id \in 1 .. Len(dom.nodes) :
             HasStyle(dom, id) =>
               dom.nodes[id].attributes["style"]
                 \notin {"stroke: None;", "fill: None;"}
        /\ StrokeStyles(dom) = { "stroke: " \o c[j] \o ";" : j \in 1 .. n }

\* two colours on the paths of two groups, with a stroke number to fill
C20_Witness ==
  /\ Called("_color_svg_groups")
  /\ Cardinality(Qualifying(Last.before, GroupAttr)) = 2
  /\ Named(Last.before, "text") # { }
  /\ Cardinality(StrokeStyles(dom)) = 2

(***************************************************************************)
(* Claims about the frame of the calls and about failures.                 *)
(***************************************************************************)
\* C21: after write_all every field of settings, characters included, has
\* the value the last read_arg_string gave it.
C21_SettingsReadOnly ==
  Called("write_all") =>
    /\ DOMAIN settings = DOMAIN log[1].st
    /\ \A f \in DOMAIN settings \ {"characters"} : settings[f] = log[1].st[f]
    /\ settings.characters.type = log[1].st.characters.type
    /\ settings.characters.value = log[1].st.characters.value

\* the KanjiVG objects a write_all run is to write, in order for a run
\* without a characters setting
AllKanji ==
  [k \in 1 .. Len(listdir) |->
     [character |-> << ChrOfCode(listdir[k].code) >>, variant |-> listdir[k].variant]]

\* the transform of the source file of a character and variant
TransformOf(character, variant, st) ==
  _modify_svg(KanjiVG(character, variant).kanji.svg, st)

\* C22: every file write_all writes holds the complete text the transform
\* of its source returned; a run whose transform fails for a character has
\* written the files of the characters before it and no file for that
\* character or a later one.
C22_NoPartialOutput ==
  ret.op = "write_all" =>
    /\ \A i \in 1 .. Len(ret.value) :
         LET w == ret.value[i]
             m == TransformOf(w.character, w.variant, ret.st)
         IN  m.raised = "" /\ w.text = m.ret /\ w.text # << >>
    /\ ~ WithCharacters =>
         LET fails == { k \in 1 .. Len(AllKanji) :
                         TransformOf(AllKanji[k].character, AllKanji[k].variant,
                                     ret.st).raised # "" }
             upto  == IF fails = { } THEN Len(AllKanji) ELSE FirstOf(fails) - 1
         IN  /\ (ret.raised # "") = (fails # { })
             /\ Len(ret.value) = upto
             /\ \A k \in 1 .. upto :
                  /\ ret.value[k].character = AllKanji[k].character
                  /\ ret.value[k].variant = AllKanji[k].variant
             /\ { f.name : f \in files }
                  = { ret.value[k].name : k \in 1 .. upto }

\* a run that failed at the third source file after writing two
C22_Witness ==
  /\ ret.op = "write_all"
  /\ ret.raised = "StopIteration"
  /\ Len(ret.value) = 2
  /\ Cardinality(files) = 2

(***************************************************************************)
(* Claims about _remove_empty_text and about surplus stroke numbers.       *)
(***************************************************************************)
\* the text nodes of a document that hold nothing but whitespace
Blank(d) ==
  { id \in 1 .. Len(d.nodes) :
      d.nodes[id].nodeType = "TEXT" /\ isspace(d.nodes[id].data) }

Without(cs, S) == SelectSeq(cs, LAMBDA c : c \notin S)

\* C23: _remove_empty_text takes every whitespace-only text node out of its
\* parent, at every depth, and changes nothing else: every other node keeps
\* its place among its siblings; a second run changes nothing.
C23_OnlyBlankTextRemoved ==
  Called("_remove_empty_text") =>
    LET b == Last.before
        W == Blank(b)
    IN  /\ Last.raised = ""
        /\ Len(dom.nodes) = Len(b.nodes)
        /\ dom.childNodes = Without(b.childNodes, W)
        /\ \A id \in 1 .. Len(b.nodes) :
             dom.nodes[id] =
               IF id \in W THEN [b.nodes[id] EXCEPT !.parentNode = -1]
               ELSE [b.nodes[id] EXCEPT !.childNodes = Without(@, W)]
        /\ _remove_empty_text(dom, 0) = dom

\* whitespace in a group, below the root element, has been taken out
C23_Witness ==
  /\ Called("_remove_empty_text")
  /\ \E w \in Blank(Last.before) :
       LET g == Last.before.nodes[w].parentNode
       IN  /\ g \in Named(Last.before, "g")
           /\ Len(dom.nodes[g].childNodes) < Len(Last.before.nodes[g].childNodes)

\* C24: _color_svg_strokes on a document with more text elements than path
\* elements raises nothing, styles every path and the first texts, as many
\* as there are paths, and leaves the other texts without style.
C24_SurplusTextsUnstyled ==
  Called("_color_svg_strokes") =>
    LET b     == Last.before
        paths == Named(b, "path")
        texts == Named(b, "text")
        P     == Cardinality(paths)
    IN  Cardinality(texts) > P =>
          /\ Last.raised = ""
          /\ \A p \in paths : HasStyle(dom, p)
          /\ \A t \in texts : HasStyle(dom, t) = (Rank(texts, t) <= P)

====
